---- MODULE Spec2Model ----
(***************************************************************************)
(* A model of the file-organization engine of file-organizer:              *)
(* core/file_operations.py (classification, get_unique_path, the           *)
(* concurrent organize run, the undo replay with empty-folder cleanup)     *)
(* and the part of core/main.py that starts runs and stores the undo log.  *)
(*                                                                         *)
(* File names are sequences of one-character strings, so that lower(),     *)
(* splitext(), substring tests and the "_N" suffix are computed as the     *)
(* code computes them.  A path is a record [dir, name]: dir is the list of *)
(* directory names below the organized folder (<<>> is the folder itself). *)
(* The filesystem is fs (path -> content of the regular file there) and    *)
(* dirs (the directories that exist).                                      *)
(***************************************************************************)
EXTENDS Integers, Sequences, FiniteSets, TLC

VARIABLES
    move_files, create_folders, organize_by_date, \* settings of the run
    fs, dirs,                  \* regular files (path -> content), directories
    cancel_flag,               \* FileOperations._cancel_flag
    operation_in_progress,     \* FileOrganizer.operation_in_progress
    app_undo_operations,       \* FileOrganizer.undo_operations (stored log)
    pc,                        \* position of the background thread / UI
    files, i,                  \* organize_files: enumerated list, loop index
    task,                      \* one record per submitted future
    collecting, finished0, doneSeq, yielded,  \* state of as_completed
    undo_operations, errors, organized,       \* organize_files: results
    k, undone, undo_errors, folders_to_check, removed_folders, \* undo locals
    h,                         \* history (observations only, never read by the code)
    cq, cr                     \* a classification query and its results

vars == << move_files, create_folders, organize_by_date, fs, dirs, cancel_flag,
           operation_in_progress, app_undo_operations, pc, files, i, task,
           collecting, finished0, doneSeq, yielded, undo_operations, errors,
           organized, k, undone, undo_errors, folders_to_check,
           removed_folders, h, cq, cr >>

settingsVars == << move_files, create_folders, organize_by_date >>
collectVars == << collecting, finished0, doneSeq, yielded >>
resultVars == << undo_operations, errors, organized >>
clsVars == << cq, cr >>
undoVars == << k, undone, undo_errors, folders_to_check, removed_folders >>

(***************************************************************************)
(* Bounds of the model.                                                    *)
(***************************************************************************)
\* how many files of FileUniverse lie in the folder
NumFiles == 2
\* how many custom tags a classification query may carry
MaxTags == 2
\* how many filesystem calls (move, copy, remove, rmdir) may fail in all
MaxFaults == 1
\* how many times get_unique_path is called in a row for one path
MaxCalls == 3

(***************************************************************************)
(* Program constants.                                                      *)
(***************************************************************************)
\* ThreadPoolExecutor(max_workers=4)
MaxWorkers == 4
\* float('inf'), the default max_size_bytes
Inf == 1000000000

\* Python's None, as returned by dict.get and get_custom_tag_category
NoneVal == "<None>"

----------------------------------------------------------------------------
(***************************************************************************)
(* Strings: str.lower, os.path.splitext, substring, str(int).              *)
(***************************************************************************)
UpperToLower ==
    ("A" :> "a") @@ ("B" :> "b") @@ ("G" :> "g") @@ ("I" :> "i") @@
    ("J" :> "j") @@ ("N" :> "n") @@ ("P" :> "p") @@ ("T" :> "t") @@
    ("V" :> "v") @@ ("X" :> "x")

LowerChar(c) == IF c \in DOMAIN UpperToLower THEN UpperToLower[c] ELSE c

\* str.lower()
Lower(s) == [j \in 1..Len(s) |-> LowerChar(s[j])]

\* "needle in hay" for Python strings
Contains(hay, needle) ==
    \E p \in 0..(Len(hay) - Len(needle)) :
        \A j \in 1..Len(needle) : hay[p + j] = needle[j]

\* str.rfind(".") + 1 (0 when there is no dot)
LastDot(s) ==
    IF \E j \in 1..Len(s) : s[j] = "."
    THEN CHOOSE j \in 1..Len(s) :
            s[j] = "." /\ \A m \in (j + 1)..Len(s) : s[m] # "."
    ELSE 0

\* os.path.splitext on a basename: the extension starts at the last dot,
\* unless only dots precede it (leading dots belong to the name)
splitext(s) ==
    LET d == LastDot(s) IN
    IF d > 0 /\ \E j \in 1..(d - 1) : s[j] # "."
    THEN << SubSeq(s, 1, d - 1), SubSeq(s, d, Len(s)) >>
    ELSE << s, << >> >>

Digits == << "0", "1", "2", "3", "4", "5", "6", "7", "8", "9" >>

RECURSIVE Str(_)
\* str(n) for n >= 0
Str(n) == IF n < 10 THEN << Digits[n + 1] >>
          ELSE Str(n \div 10) \o << Digits[(n % 10) + 1] >>

----------------------------------------------------------------------------
(***************************************************************************)
(* Paths and the filesystem.                                               *)
(***************************************************************************)
Root == << >>

Path(d, n) == [dir |-> d, name |-> n]

\* os.path.dirname of a directory below the folder
Parent(d) == SubSeq(d, 1, Len(d) - 1)

\* os.path.exists for a file path
Exists(f, p) == p \in DOMAIN f

Put(f, p, c) == [q \in (DOMAIN f) \cup {p} |-> IF q = p THEN c ELSE f[q]]

Del(f, p) == [q \in (DOMAIN f) \ {p} |-> f[q]]

\* os.listdir(d) is empty
IsEmptyDir(f, ds, d) ==
    /\ ~ \E p \in DOMAIN f : p.dir = d
    /\ ~ \E e \in ds : Len(e) = Len(d) + 1 /\ Parent(e) = d

\* os.makedirs(d, exist_ok=True)
makedirs(ds, d) == ds \cup { SubSeq(d, 1, n) : n \in 0..Len(d) }

(***************************************************************************)
(* The folder's content.                                                   *)
(***************************************************************************)
aTxt == << "a", ".", "t", "x", "t" >>
a1Txt == << "a", "_", "1", ".", "t", "x", "t" >>
bJpg == << "b", ".", "J", "P", "G" >>
cBin == << "c" >>
\* names that are only classified or scanned: upper case, and hidden
invPdf == << "I", "N", "V", ".", "p", "d", "f" >>
dotTxt == << ".", "t", "x", "t" >>

\* the files that may lie in the folder, in a fixed order
FileUniverse == << aTxt, a1Txt, bJpg, cBin >>

\* the content of each file of the universe (a token for its bytes)
ContentOf(n) ==
    CASE n = aTxt -> "A" [] n = a1Txt -> "A1" [] n = bJpg -> "B" [] OTHER -> "C"

\* st_mtime of a content, as the "%Y-%m" bucket strftime gives
MonthOf(c) == IF c = "A1" THEN "2023-11" ELSE "2024-03"

\* os.path.getsize
SizeOf(c) == CASE c = "A" -> 1 [] c = "A1" -> 2 [] c = "B" -> 3 [] OTHER -> 0

\* the category -> extensions table (an ordered dict): a cut of the defaults
\* of config_manager.py
DefaultFileTypes ==
    << [category |-> "Images", extensions |-> { << ".", "j", "p", "g" >>,
                                                 << ".", "p", "n", "g" >> }],
       [category |-> "Documents", extensions |-> { << ".", "t", "x", "t" >>,
                                                    << ".", "p", "d", "f" >> }] >>

----------------------------------------------------------------------------
(***************************************************************************)
(* Classification.                                                         *)
(***************************************************************************)
RECURSIVE FirstCategory(_, _, _)
\* the for loop of get_file_category from table position n on
FirstCategory(file_types, ext, n) ==
    IF n > Len(file_types) THEN "Others"
    ELSE IF ext \in file_types[n].extensions THEN file_types[n].category
    ELSE FirstCategory(file_types, ext, n + 1)

\* a faulty variant of get_file_category: the last listing category wins
get_file_category_lastmatch(file_types, filename) ==
    LET ext == Lower(splitext(filename)[2])
        hits == { n \in 1..Len(file_types) : ext \in file_types[n].extensions }
    IN  IF hits = {} THEN "Others"
        ELSE file_types[CHOOSE n \in hits : \A m \in hits : m <= n].category

\* get_file_category: the lowercased extension, then the first category of
\* the table that lists it
get_file_category(file_types, filename) ==
    FirstCategory(file_types, Lower(splitext(filename)[2]), 1)

\* the text of a custom tag (tags are named by strings, matched by text);
\* main.py strips the tags and drops the empty ones before a run
TagText(tag) ==
    CASE tag = "Inv" -> << "I", "n", "v" >>
      [] tag = "a"   -> << "a" >>
      [] tag = "txt" -> << "t", "x", "t" >>
      [] OTHER       -> << "z", "z" >>

RECURSIVE FirstTag(_, _, _)
\* the for loop of get_custom_tag_category from tag position n on
FirstTag(filename_lower, custom_tags, n) ==
    IF n > Len(custom_tags) THEN NoneVal
    ELSE IF Contains(filename_lower, Lower(TagText(custom_tags[n])))
         THEN custom_tags[n]
    ELSE FirstTag(filename_lower, custom_tags, n + 1)

\* a faulty variant of get_custom_tag_category: the file name is not lowercased
get_custom_tag_category_cased(filename, custom_tags) ==
    FirstTag(filename, custom_tags, 1)

\* get_custom_tag_category: the first tag whose lowercased text occurs in the
\* lowercased file name, None when there is none
get_custom_tag_category(filename, custom_tags) ==
    FirstTag(Lower(filename), custom_tags, 1)

\* Python truthiness of an Optional[str]
Falsy(v) == v = NoneVal \/ v = ""

\* the empty dict
EmptyDict == [x \in { } |-> ""]

\* dict.get(filename)
DictGet(d, key) == IF key \in DOMAIN d THEN d[key] ELSE NoneVal

\* a faulty variant of the cascade: the custom tag is asked before the manual
\* assignment
process_category_tagfirst(file_types, filename, custom_tags, manual_assignments) ==
    LET category == DictGet(manual_assignments, filename)
        custom_category == get_custom_tag_category(filename, custom_tags)
    IN  IF ~ Falsy(custom_category) THEN custom_category
        ELSE IF ~ Falsy(category) THEN category
        ELSE get_file_category(file_types, filename)

\* lines 247-256 of _process_single_file: manual, then tag, then extension
process_category(file_types, filename, custom_tags, manual_assignments) ==
    LET category == DictGet(manual_assignments, filename)
        custom_category == get_custom_tag_category(filename, custom_tags)
    IN  IF ~ Falsy(category) THEN category
        ELSE IF ~ Falsy(custom_category) THEN custom_category
        ELSE get_file_category(file_types, filename)

\* lines 101-109 of get_organization_preview: the same cascade
preview_category(file_types, filename, custom_tags, manual_assignments) ==
    LET category == DictGet(manual_assignments, filename)
        custom_category == get_custom_tag_category(filename, custom_tags)
    IN  IF ~ Falsy(category) THEN category
        ELSE IF ~ Falsy(custom_category) THEN custom_category
        ELSE get_file_category(file_types, filename)

\* get_date_folder: the month of st_mtime, "Unknown-Date" when stat fails
get_date_folder(f, file_path) ==
    IF Exists(f, file_path) THEN MonthOf(f[file_path]) ELSE "Unknown-Date"

\* get_file_size: os.path.getsize, 0 when it fails
get_file_size(f, file_path) ==
    IF Exists(f, file_path) THEN SizeOf(f[file_path]) ELSE 0

\* a faulty variant of passes_size_filter: the lower bound is exclusive
passes_size_filter_strict(f, file_path, min_size_bytes, max_size_bytes) ==
    LET file_size == get_file_size(f, file_path)
    IN  min_size_bytes < file_size /\ file_size <= max_size_bytes

\* passes_size_filter: min <= size <= max
passes_size_filter(f, file_path, min_size_bytes, max_size_bytes) ==
    LET file_size == get_file_size(f, file_path)
    IN  min_size_bytes <= file_size /\ file_size <= max_size_bytes

\* get_files_in_folder: the regular files directly in the folder, filtered
\* (as a set: os.listdir gives them in no particular order)
get_files_in_folder(f, skip_hidden, min_size_bytes, max_size_bytes) ==
    { p.name : p \in { q \in DOMAIN f :
        /\ q.dir = Root
        /\ (skip_hidden => q.name[1] # ".")
        /\ passes_size_filter(f, q, min_size_bytes, max_size_bytes) } }

\* the orders in which os.listdir may give a set of names
Orders(S) ==
    { s \in [1..Cardinality(S) -> S] :
        \A a, b \in 1..Cardinality(S) : a # b => s[a] # s[b] }

----------------------------------------------------------------------------
(***************************************************************************)
(* The run: settings other than the three flags are fixed.                 *)
(***************************************************************************)
RunTags == << >>
RunManual == EmptyDict
RunSkipHidden == TRUE

NoPath == Path(Root, << >>)
NoneOp == [kind |-> "None", src |-> NoPath, dst |-> NoPath]
NoTask == [st |-> "none", dest_path |-> NoPath, counter |-> 0,
           op |-> NoneOp, ok |-> FALSE]

file_path(t) == Path(Root, files[t])

Submitted == { t \in DOMAIN task : task[t].st # "none" }
Finished == { t \in DOMAIN task : task[t].st = "done" }

OrgPhases == { "org_check", "org_submit", "org_collect0", "org_collect",
               "org_join" }
UndoPhases == { "undo_loop", "undo_cleanup" }

(***************************************************************************)
(* Initial states: the folder holds the first NumFiles files of the        *)
(* universe; the Documents folder is absent, present and empty, or the     *)
(* destination folder of the text files already holds an a.txt.            *)
(***************************************************************************)
InitialFiles ==
    [ p \in { Path(Root, FileUniverse[n]) : n \in 1..NumFiles }
        |-> ContentOf(p.name) ]

DocsDir(by_date) ==
    IF by_date THEN << "Documents", "2024-03" >> ELSE << "Documents" >>

Scenarios ==
    { [cf |-> TRUE, bd |-> bd, pre |-> pre] :
        bd \in BOOLEAN, pre \in { "none", "empty", "full" } }
    \cup { [cf |-> FALSE, bd |-> FALSE, pre |-> "none"] }

InitRun(sc, mv) ==
        /\ move_files = mv
        /\ create_folders = sc.cf
        /\ organize_by_date = sc.bd
        /\ fs = IF sc.pre = "full"
                THEN Put(InitialFiles, Path(DocsDir(sc.bd), aTxt), "pre")
                ELSE InitialFiles
        /\ dirs = CASE sc.pre = "none" -> { Root }
                    [] sc.pre = "empty" -> { Root, << "Documents" >> }
                    [] OTHER -> makedirs({ Root }, DocsDir(sc.bd))
        /\ cancel_flag = FALSE
        /\ operation_in_progress = FALSE
        /\ app_undo_operations = << >>
        /\ pc = "idle"
        /\ files = << >>
        /\ i = 0
        /\ task = << >>
        /\ collecting = FALSE
        /\ finished0 = { }
        /\ doneSeq = << >>
        /\ yielded = { }
        /\ undo_operations = << >>
        /\ errors = << >>
        /\ organized = 0
        /\ k = 0
        /\ undone = 0
        /\ undo_errors = << >>
        /\ folders_to_check = { }
        /\ removed_folders = << >>
        /\ h = [ fs0 |-> fs, dirs0 |-> dirs, faults |-> 0, external |-> FALSE,
                 undoFaults |-> 0, overwrote |-> FALSE, nAtCancel |-> -1,
                 checkPassed |-> FALSE, undoCancelled |-> FALSE,
                 created |-> { }, did |-> { },
                 overlap |-> FALSE, unlistable |-> FALSE,
             progress |-> << >>, status |-> << >>, callbacks |-> 0 ]

\* a query of the classifier: its inputs, and what the two callers returned
NoQuery == [filename |-> << >>, custom_tags |-> << >>,
            manual_assignments |-> EmptyDict, file_types |-> << >>]
NoResult == [process |-> NoneVal, preview |-> NoneVal]

Init ==
    /\ \E sc \in Scenarios, mv \in BOOLEAN : InitRun(sc, mv)
    /\ cq = NoQuery
    /\ cr = NoResult

----------------------------------------------------------------------------
(***************************************************************************)
(* The UI thread: FileOrganizer.organize_files, cancel_operation.          *)
(***************************************************************************)
\* main.py organize_files: rejected while a run is in progress; otherwise
\* sets the flag and starts the background thread of organize_files_async
OrganizeStart ==
    /\ pc = "idle"
    /\ ~ operation_in_progress
    /\ operation_in_progress' = TRUE
    /\ pc' = "org_start"
    /\ h' = [h EXCEPT !.callbacks = 0]
    /\ UNCHANGED << clsVars, settingsVars, fs, dirs, cancel_flag, app_undo_operations,
                    files, i, task, collectVars, resultVars, undoVars >>

\* main.py cancel_operation (and on_closing): only while a run is in progress
CancelOperation ==
    /\ operation_in_progress
    /\ cancel_flag' = TRUE
    /\ h' = [h EXCEPT
              !.nAtCancel = IF pc \in OrgPhases /\ ~ cancel_flag
                            THEN Cardinality(Submitted) ELSE @,
              !.checkPassed = IF pc \in OrgPhases /\ ~ cancel_flag
                              THEN pc = "org_submit" ELSE @,
              !.undoCancelled = @ \/ pc \in UndoPhases]
    /\ UNCHANGED << clsVars, settingsVars, fs, dirs, operation_in_progress,
                    app_undo_operations, pc, files, i, task, collectVars,
                    resultVars, undoVars >>

(***************************************************************************)
(* The background thread of an organize run: organize_worker and the       *)
(* coordinating part of organize_files.                                    *)
(***************************************************************************)
\* organize_worker: reset_cancel_flag(), then organize_files up to the loop:
\* the locals and the enumeration of the folder
OrganizeBegin ==
    /\ pc = "org_start"
    /\ cancel_flag' = FALSE
    /\ \E order \in Orders(get_files_in_folder(fs, RunSkipHidden, 0, Inf)) :
          /\ files' = order
          /\ task' = [t \in 1..Len(order) |-> NoTask]
    /\ i' = 0
    /\ undo_operations' = << >>
    /\ errors' = << >>
    /\ organized' = 0
    /\ pc' = "org_check"
    /\ h' = [h EXCEPT !.progress = << >>, !.status = << >>]
    /\ UNCHANGED << clsVars, settingsVars, fs, dirs, operation_in_progress,
                    app_undo_operations, collectVars, undoVars >>

\* a faulty variant of the failing enumeration: the error is swallowed and
\* the run goes on with no files
OrganizeRaise_swallowed ==
    /\ pc = "org_start"
    /\ cancel_flag' = FALSE
    /\ files' = << >>
    /\ task' = << >>
    /\ i' = 0
    /\ undo_operations' = << >>
    /\ errors' = << >>
    /\ organized' = 0
    /\ pc' = "org_check"
    /\ h' = [h EXCEPT !.unlistable = TRUE]
    /\ UNCHANGED << clsVars, settingsVars, fs, dirs, operation_in_progress,
                    app_undo_operations, collectVars, undoVars >>

\* organize_worker with a folder that cannot be listed: reset_cancel_flag(),
\* line 185-187, then os.listdir raises in get_files_in_folder (line 81-82),
\* organize_files raises in turn (line 236-237) and organize_worker hands
\* the error to the completion callback (line 166-168)
OrganizeRaise ==
    /\ pc = "org_start"
    /\ cancel_flag' = FALSE
    /\ undo_operations' = << >>
    /\ errors' = << >>
    /\ organized' = 0
    /\ pc' = "org_raised"
    /\ h' = [h EXCEPT !.unlistable = TRUE]
    /\ UNCHANGED << clsVars, settingsVars, fs, dirs, operation_in_progress,
                    app_undo_operations, files, i, task, collectVars,
                    undoVars >>

\* line 204-207: progress_callback(i + 1, total_files) and
\* status_callback("Processing: " + filename), recorded in call order
Notified ==
    [h EXCEPT !.progress = Append(@, [current |-> i + 1, total |-> Len(files)]),
              !.status = Append(@, files[i + 1])]

\* a faulty variant of the submit loop: the cancel flag is not looked at
SubmitCheck_unchecked ==
    /\ pc = "org_check"
    /\ pc' = IF i = Len(files) THEN "org_collect0" ELSE "org_submit"
    /\ h' = IF i = Len(files) THEN h ELSE Notified
    /\ UNCHANGED << clsVars, settingsVars, fs, dirs, cancel_flag,
                    operation_in_progress, app_undo_operations, files, i, task,
                    collectVars, resultVars, undoVars >>

\* a faulty variant of the submit loop: the file is submitted without its
\* progress and status callbacks
SubmitCheck_silent ==
    /\ pc = "org_check"
    /\ pc' = IF i = Len(files) \/ cancel_flag THEN "org_collect0"
             ELSE "org_submit"
    /\ UNCHANGED << clsVars, settingsVars, fs, dirs, cancel_flag,
                    operation_in_progress, app_undo_operations, files, i, task,
                    collectVars, resultVars, undoVars, h >>

\* line 197-207: the next file of the enumeration and the cancel check; a
\* file that passes the check has its callbacks called before line 210
SubmitCheck ==
    /\ pc = "org_check"
    /\ pc' = IF i = Len(files) \/ cancel_flag THEN "org_collect0"
             ELSE "org_submit"
    /\ h' = IF i = Len(files) \/ cancel_flag THEN h ELSE Notified
    /\ UNCHANGED << clsVars, settingsVars, fs, dirs, cancel_flag, operation_in_progress,
                    app_undo_operations, files, i, task, collectVars,
                    resultVars, undoVars >>

\* line 210-216: executor.submit
Submit ==
    /\ pc = "org_submit"
    /\ task' = [task EXCEPT ![i + 1].st = "queued"]
    /\ i' = i + 1
    /\ pc' = "org_check"
    /\ UNCHANGED << clsVars, settingsVars, fs, dirs, cancel_flag, operation_in_progress,
                    app_undo_operations, files, collectVars, resultVars,
                    undoVars, h >>

\* line 219, first iteration: as_completed splits the futures into those
\* already finished (given in no particular order) and the pending ones
\* (given in the order they finish)
CollectBegin ==
    /\ pc = "org_collect0"
    /\ collecting' = TRUE
    /\ finished0' = Finished
    /\ doneSeq' = << >>
    /\ yielded' = { }
    /\ pc' = "org_collect"
    /\ UNCHANGED << clsVars, settingsVars, fs, dirs, cancel_flag, operation_in_progress,
                    app_undo_operations, files, i, task, resultVars, undoVars,
                    h >>

\* a faulty variant of the loop body: a failed operation leaves no error entry
Collected_dropError(t) ==
    IF task[t].ok
    THEN /\ undo_operations' = Append(undo_operations, task[t].op)
         /\ organized' = organized + 1
         /\ errors' = errors
    ELSE UNCHANGED << undo_operations, organized, errors >>

\* line 223-234: what the loop body does with the result of future t
Collected(t) ==
    IF task[t].ok
    THEN /\ undo_operations' = Append(undo_operations, task[t].op)
         /\ organized' = organized + 1
         /\ errors' = errors
    ELSE /\ errors' = Append(errors, files[t])
         /\ UNCHANGED << undo_operations, organized >>

\* line 219-234: one iteration of the collection loop
CollectNext ==
    /\ pc = "org_collect"
    /\ yielded # Submitted
    /\ \E t \in Submitted \ yielded :
          /\ \/ t \in finished0 /\ doneSeq' = doneSeq
             \/ /\ finished0 \subseteq yielded
                /\ doneSeq # << >>
                /\ t = Head(doneSeq)
                /\ doneSeq' = Tail(doneSeq)
          /\ IF cancel_flag
             THEN /\ pc' = "org_join"
                  /\ UNCHANGED << yielded, resultVars >>
             ELSE /\ yielded' = yielded \cup {t}
                  /\ Collected(t)
                  /\ pc' = pc
    /\ UNCHANGED << clsVars, settingsVars, fs, dirs, cancel_flag, operation_in_progress,
                    app_undo_operations, files, i, task, collecting, finished0,
                    undoVars, h >>

\* line 219: as_completed is exhausted
CollectEnd ==
    /\ pc = "org_collect"
    /\ yielded = Submitted
    /\ pc' = "org_join"
    /\ UNCHANGED << clsVars, settingsVars, fs, dirs, cancel_flag, operation_in_progress,
                    app_undo_operations, files, i, task, collectVars,
                    resultVars, undoVars, h >>

\* a faulty variant of the return: the pool is shut down without waiting
OrganizeReturn_nowait ==
    /\ pc = "org_join"
    /\ pc' = "org_returned"
    /\ UNCHANGED << clsVars, settingsVars, fs, dirs, cancel_flag, operation_in_progress,
                    app_undo_operations, files, i, task, collectVars,
                    resultVars, undoVars, h >>

\* leaving "with ThreadPoolExecutor": shutdown(wait=True), then line 239 and
\* the completion callback handed to the UI thread
OrganizeReturn ==
    /\ pc = "org_join"
    /\ Submitted = Finished
    /\ pc' = "org_returned"
    /\ UNCHANGED << clsVars, settingsVars, fs, dirs, cancel_flag, operation_in_progress,
                    app_undo_operations, files, i, task, collectVars,
                    resultVars, undoVars, h >>

(***************************************************************************)
(* The pool's worker threads: _process_single_file, one filesystem call    *)
(* per step.                                                               *)
(***************************************************************************)
\* a worker takes the oldest queued task when fewer than max_workers of the
\* tasks before it are still unfinished; line 246-269
WorkerStart(t) ==
    /\ pc \in OrgPhases
    /\ task[t].st = "queued"
    /\ Cardinality({ u \in 1..(t - 1) : task[u].st \notin { "none", "done" } })
          < MaxWorkers
    /\ LET filename == files[t]
           category == process_category(DefaultFileTypes, filename, RunTags,
                                        RunManual)
           dest_folder ==
               IF ~ create_folders THEN Root
               ELSE IF organize_by_date
                    THEN << category, get_date_folder(fs, file_path(t)) >>
               ELSE << category >>
       IN  /\ dirs' = makedirs(dirs, dest_folder)
           /\ task' = [task EXCEPT ![t].st = "unique",
                                   ![t].dest_path = Path(dest_folder, filename)]
           /\ h' = [h EXCEPT !.created = @ \cup (makedirs(dirs, dest_folder) \ dirs)]
    /\ UNCHANGED << clsVars, settingsVars, fs, cancel_flag, operation_in_progress,
                    app_undo_operations, pc, files, i, collectVars, resultVars,
                    undoVars >>

\* a faulty variant of get_unique_path: the path is returned without a look
\* at the filesystem
UniqueFirst_unchecked(t) ==
    /\ task[t].st = "unique"
    /\ task' = [task EXCEPT ![t].st = "move"]
    /\ UNCHANGED << clsVars, settingsVars, fs, dirs, cancel_flag, operation_in_progress,
                    app_undo_operations, pc, files, i, collectVars, resultVars,
                    undoVars, h >>

\* get_unique_path line 127-134: the first os.path.exists
UniqueFirst(t) ==
    /\ task[t].st = "unique"
    /\ task' = IF Exists(fs, task[t].dest_path)
               THEN [task EXCEPT ![t].st = "loop", ![t].counter = 1]
               ELSE [task EXCEPT ![t].st = "move"]
    /\ UNCHANGED << clsVars, settingsVars, fs, dirs, cancel_flag, operation_in_progress,
                    app_undo_operations, pc, files, i, collectVars, resultVars,
                    undoVars, h >>

\* line 136-137: name_N.ext beside the original path
Suffixed(filename, counter) ==
    splitext(filename)[1] \o << "_" >> \o Str(counter) \o splitext(filename)[2]

\* get_unique_path line 135-140: one test of the while loop
UniqueLoop(t) ==
    /\ task[t].st = "loop"
    /\ task' = IF Exists(fs, task[t].dest_path)
               THEN [task EXCEPT
                       ![t].dest_path = Path(@.dir, Suffixed(files[t], task[t].counter)),
                       ![t].counter = @ + 1]
               ELSE [task EXCEPT ![t].st = "move"]
    /\ UNCHANGED << clsVars, settingsVars, fs, dirs, cancel_flag, operation_in_progress,
                    app_undo_operations, pc, files, i, collectVars, resultVars,
                    undoVars, h >>

\* the future of task t gets its result: as_completed's waiter notes it
Complete(t, op, ok) ==
    /\ task' = [task EXCEPT ![t].st = "done", ![t].op = op, ![t].ok = ok]
    /\ doneSeq' = IF collecting THEN Append(doneSeq, t) ELSE doneSeq

\* line 275-283: shutil.move / shutil.copy2 succeeds (both replace a file
\* that exists at the destination)
WorkerMove(t) ==
    /\ task[t].st = "move"
    /\ file_path(t) # task[t].dest_path
    /\ Exists(fs, file_path(t))
    /\ LET src == file_path(t)
           dst == task[t].dest_path
           kind == IF move_files THEN "move" ELSE "copy"
       IN  /\ fs' = IF move_files THEN Put(Del(fs, src), dst, fs[src])
                    ELSE Put(fs, dst, fs[src])
           /\ Complete(t, [kind |-> kind, src |-> src, dst |-> dst], TRUE)
           /\ h' = [h EXCEPT
                     !.overwrote = @ \/ Exists(fs, dst),
                     !.did = @ \cup { [kind |-> kind, src |-> src, dst |-> dst] }]
    /\ UNCHANGED << clsVars, settingsVars, dirs, cancel_flag, operation_in_progress,
                    app_undo_operations, pc, files, i, collecting, finished0,
                    yielded, resultVars, undoVars >>

\* line 285-286: the move or copy raises (the source is gone, or the call
\* fails): the worker returns (None, False)
WorkerFail(t) ==
    /\ task[t].st = "move"
    /\ file_path(t) # task[t].dest_path
    /\ \/ ~ Exists(fs, file_path(t)) /\ h' = h
       \/ /\ Exists(fs, file_path(t))
          /\ h.faults + h.undoFaults < MaxFaults
          /\ h' = [h EXCEPT !.faults = @ + 1]
    /\ Complete(t, NoneOp, FALSE)
    /\ UNCHANGED << clsVars, settingsVars, fs, dirs, cancel_flag, operation_in_progress,
                    app_undo_operations, pc, files, i, collecting, finished0,
                    yielded, resultVars, undoVars >>

\* line 275, 288: the destination is the source: the worker returns
\* (None, True)
WorkerSkip(t) ==
    /\ task[t].st = "move"
    /\ file_path(t) = task[t].dest_path
    /\ Complete(t, NoneOp, TRUE)
    /\ UNCHANGED << clsVars, settingsVars, fs, dirs, cancel_flag, operation_in_progress,
                    app_undo_operations, pc, files, i, collecting, finished0,
                    yielded, resultVars, undoVars, h >>

\* the environment: another program removes a file of the folder while the
\* run is under way (at most once)
ExternalRemove ==
    /\ pc \in OrgPhases
    /\ ~ h.external
    /\ \E t \in DOMAIN task :
          /\ task[t].st # "done"
          /\ Exists(fs, file_path(t))
          /\ fs' = Del(fs, file_path(t))
    /\ h' = [h EXCEPT !.external = TRUE]
    /\ UNCHANGED << clsVars, settingsVars, dirs, cancel_flag, operation_in_progress,
                    app_undo_operations, pc, files, i, task, collectVars,
                    resultVars, undoVars >>

(***************************************************************************)
(* The UI thread again: the completion callback of organize, and           *)
(* FileOrganizer.undo_last_operation.                                      *)
(***************************************************************************)
\* main.py line 846-883, with result = (organized, errors, undo_ops).  The
\* callback is handed the result only: the other locals of organize_files
\* (files, the futures, the loop index, the callbacks already made) are gone
\* with its frame
OrganizeComplete ==
    /\ pc = "org_returned"
    /\ operation_in_progress' = FALSE
    /\ app_undo_operations' =
          IF undo_operations # << >> THEN undo_operations
          ELSE app_undo_operations
    /\ pc' = "ready"
    /\ files' = << >>
    /\ i' = 0
    /\ task' = << >>
    /\ collecting' = FALSE
    /\ finished0' = { }
    /\ doneSeq' = << >>
    /\ yielded' = { }
    /\ h' = [h EXCEPT !.progress = << >>, !.status = << >>,
                        !.callbacks = @ + 1]
    /\ UNCHANGED << clsVars, settingsVars, fs, dirs, cancel_flag, resultVars,
                    undoVars >>

\* main.py line 846-856, with result = None and an error: the flag is
\* cleared, the error is shown, nothing is stored
OrganizeFailed ==
    /\ pc = "org_raised"
    /\ operation_in_progress' = FALSE
    /\ pc' = "failed"
    /\ h' = [h EXCEPT !.callbacks = @ + 1]
    /\ UNCHANGED << clsVars, settingsVars, fs, dirs, cancel_flag,
                    app_undo_operations, files, i, task, collectVars,
                    resultVars, undoVars >>

\* main.py undo_last_operation: rejected while a run is in progress or when
\* there is nothing stored; otherwise starts the thread of
\* undo_operations_async, whose undo_worker calls undo_operations at once
\* (line 317-319: its locals)
UndoStart ==
    /\ pc = "ready"
    /\ ~ operation_in_progress
    /\ app_undo_operations # << >>
    /\ operation_in_progress' = TRUE
    /\ k' = Len(app_undo_operations)
    /\ undone' = 0
    /\ undo_errors' = << >>
    /\ folders_to_check' = { }
    /\ removed_folders' = << >>
    /\ pc' = "undo_loop"
    /\ h' = [h EXCEPT !.callbacks = 0]
    /\ UNCHANGED << clsVars, settingsVars, fs, dirs, cancel_flag, app_undo_operations,
                    files, i, task, collectVars, resultVars >>

(***************************************************************************)
(* The background thread of an undo run: undo_operations.                  *)
(***************************************************************************)
\* line 322: the entries are taken from the last to the first
UndoEnd ==
    /\ pc = "undo_loop"
    /\ k = 0
    /\ pc' = "undo_cleanup"
    /\ UNCHANGED << clsVars, settingsVars, fs, dirs, cancel_flag, operation_in_progress,
                    app_undo_operations, files, i, task, collectVars,
                    resultVars, undoVars, h >>

\* line 322: "for operation_type, source, destination in ..." cannot unpack
\* an entry that is None: the TypeError leaves undo_operations
UndoRaise ==
    /\ pc = "undo_loop"
    /\ k > 0
    /\ app_undo_operations[k] = NoneOp
    /\ pc' = "undo_raised"
    /\ UNCHANGED << clsVars, settingsVars, fs, dirs, cancel_flag, operation_in_progress,
                    app_undo_operations, files, i, task, collectVars,
                    resultVars, undoVars, h >>

\* line 323-324: the cancel check
UndoCancelled ==
    /\ pc = "undo_loop"
    /\ k > 0
    /\ app_undo_operations[k] # NoneOp
    /\ cancel_flag
    /\ pc' = "undo_cleanup"
    /\ UNCHANGED << clsVars, settingsVars, fs, dirs, cancel_flag, operation_in_progress,
                    app_undo_operations, files, i, task, collectVars,
                    resultVars, undoVars, h >>

\* a faulty variant of the reversal: a copy is undone by removing the source
undo_entry_removesSource(f, op) ==
    IF op.kind = "move" THEN Put(Del(f, op.dst), op.src, f[op.dst])
    ELSE Del(f, op.src)

\* line 330-341 for one entry: a move is moved back (replacing a file that
\* exists at the source path), a copy is removed
undo_entry(f, op) ==
    IF op.kind = "move" THEN Put(Del(f, op.dst), op.src, f[op.dst])
    ELSE Del(f, op.dst)

\* line 326-343: one entry of the log
UndoStep ==
    /\ pc = "undo_loop"
    /\ k > 0
    /\ app_undo_operations[k] # NoneOp
    /\ ~ cancel_flag
    /\ LET op == app_undo_operations[k] IN
       \/ /\ Exists(fs, op.dst)
          /\ fs' = undo_entry(fs, op)
          /\ undone' = undone + 1
          /\ folders_to_check' = folders_to_check \cup { op.dst.dir }
          /\ UNCHANGED << undo_errors, h >>
       \/ /\ ~ Exists(fs, op.dst)
          /\ UNCHANGED << fs, undone, folders_to_check, undo_errors, h >>
       \/ /\ Exists(fs, op.dst)
          /\ h.faults + h.undoFaults < MaxFaults
          /\ h' = [h EXCEPT !.undoFaults = @ + 1]
          /\ undo_errors' = Append(undo_errors, op.dst.name)
          /\ UNCHANGED << fs, undone, folders_to_check >>
    /\ k' = k - 1
    /\ UNCHANGED << clsVars, settingsVars, dirs, cancel_flag, operation_in_progress,
                    app_undo_operations, pc, files, i, task, collectVars,
                    resultVars, removed_folders >>

RECURSIVE EmptyChain_unchecked(_, _, _)
\* a faulty variant of the upward walk: os.listdir is not asked, every
\* directory on the way up is removed
EmptyChain_unchecked(f, ds, d) ==
    IF d \in ds
    THEN << d >> \o (IF d = Root THEN << >>
                     ELSE EmptyChain_unchecked(f, ds \ {d}, Parent(d)))
    ELSE << >>

RECURSIVE EmptyChain(_, _, _)
\* line 350-361: the directories the upward walk from d removes, in order:
\* d while it exists and is empty, then its parent, and so on.  The walk
\* stops above the organized folder (its parent is taken to be non-empty)
EmptyChain(f, ds, d) ==
    IF d \in ds /\ IsEmptyDir(f, ds, d)
    THEN << d >> \o (IF d = Root THEN << >>
                     ELSE EmptyChain(f, ds \ {d}, Parent(d)))
    ELSE << >>

\* line 347-364: the walk from one folder of folders_to_check (a set: the
\* folders come in no particular order); an os.rmdir that raises ends the
\* walk from that folder with an error
CleanupStep ==
    /\ pc = "undo_cleanup"
    /\ \E folder \in folders_to_check :
          LET chain == EmptyChain(fs, dirs, folder) IN
          /\ folders_to_check' = folders_to_check \ {folder}
          /\ \/ /\ dirs' = dirs \ { chain[n] : n \in 1..Len(chain) }
                /\ removed_folders' = removed_folders \o chain
                /\ UNCHANGED << undo_errors, h >>
             \/ /\ h.faults + h.undoFaults < MaxFaults
                /\ \E m \in 1..Len(chain) :
                      /\ dirs' = dirs \ { chain[n] : n \in 1..(m - 1) }
                      /\ removed_folders' = removed_folders \o SubSeq(chain, 1, m - 1)
                /\ undo_errors' = Append(undo_errors, << "folder" >>)
                /\ h' = [h EXCEPT !.undoFaults = @ + 1]
    /\ UNCHANGED << clsVars, settingsVars, fs, cancel_flag, operation_in_progress,
                    app_undo_operations, pc, files, i, task, collectVars,
                    resultVars, k, undone >>

\* line 366: return undone, errors, removed_folders
UndoReturn ==
    /\ pc = "undo_cleanup"
    /\ folders_to_check = { }
    /\ pc' = "undo_returned"
    /\ UNCHANGED << clsVars, settingsVars, fs, dirs, cancel_flag, operation_in_progress,
                    app_undo_operations, files, i, task, collectVars,
                    resultVars, undoVars, h >>

\* what undo_worker hands to the completion callback
UndoResult == << undone, undo_errors, removed_folders >>

\* a faulty variant of the undo callback: the result is unpacked before the
\* in-progress flag is cleared, so the failing unpack leaves the flag set
UndoComplete_unpackfirst ==
    /\ pc \in { "undo_returned", "undo_raised" }
    /\ operation_in_progress' =
          IF pc = "undo_returned" /\ Len(UndoResult) # 2 THEN TRUE ELSE FALSE
    /\ app_undo_operations' =
          IF pc = "undo_returned" /\ Len(UndoResult) = 2 THEN << >>
          ELSE app_undo_operations
    /\ pc' = "finished"
    /\ h' = [h EXCEPT !.callbacks = @ + 1]
    /\ UNCHANGED << clsVars, settingsVars, fs, dirs, cancel_flag, files, i, task,
                    collectVars, resultVars, undoVars >>

\* main.py line 929-957: the completion callback of undo.  With an error it
\* returns after the message; otherwise "undone, errors = result" must
\* unpack the result, and only then is the stored log cleared
UndoComplete ==
    /\ pc \in { "undo_returned", "undo_raised" }
    /\ operation_in_progress' = FALSE
    /\ app_undo_operations' =
          IF pc = "undo_returned" /\ Len(UndoResult) = 2 THEN << >>
          ELSE app_undo_operations
    /\ pc' = "finished"
    /\ h' = [h EXCEPT !.callbacks = @ + 1]
    /\ UNCHANGED << clsVars, settingsVars, fs, dirs, cancel_flag, files, i, task,
                    collectVars, resultVars, undoVars >>

Worker ==
    \E t \in DOMAIN task :
        \/ WorkerStart(t)
        \/ UniqueFirst(t)
        \/ UniqueLoop(t)
        \/ WorkerMove(t)
        \/ WorkerFail(t)
        \/ WorkerSkip(t)

Next ==
    \/ OrganizeStart
    \/ CancelOperation
    \/ OrganizeBegin
    \/ OrganizeRaise
    \/ SubmitCheck
    \/ Submit
    \/ CollectBegin
    \/ CollectNext
    \/ CollectEnd
    \/ OrganizeReturn
    \/ Worker
    \/ ExternalRemove
    \/ OrganizeComplete
    \/ OrganizeFailed
    \/ UndoStart
    \/ UndoEnd
    \/ UndoRaise
    \/ UndoCancelled
    \/ UndoStep
    \/ CleanupStep
    \/ UndoReturn
    \/ UndoComplete

Spec == Init /\ [][Next]_vars

----------------------------------------------------------------------------
(***************************************************************************)
(* The application over several runs: the Organize and Undo buttons may be *)
(* pressed at any time and any number of times.  The folder is organized   *)
(* in move mode into category folders; nobody cancels and no other        *)
(* program touches the folder.                                             *)
(***************************************************************************)
\* the positions at which no background thread exists
RestPhases == { "idle", "ready", "finished", "failed" }

\* what a press of either button leaves alone when it is rejected
requestFrame ==
    << clsVars, settingsVars, fs, dirs, cancel_flag, operation_in_progress,
       app_undo_operations, pc, files, i, task, collectVars, resultVars,
       undoVars >>

\* a faulty variant of organize_files: the in-progress flag is not looked at
OrganizeRequest_unguarded ==
    /\ operation_in_progress' = TRUE
    /\ pc' = "org_start"
    /\ collecting' = FALSE
    /\ finished0' = { }
    /\ doneSeq' = << >>
    /\ yielded' = { }
    /\ h' = [h EXCEPT !.overlap = @ \/ pc \notin RestPhases,
                        !.callbacks = 0]
    /\ UNCHANGED << clsVars, settingsVars, fs, dirs, cancel_flag,
                    app_undo_operations, files, i, task, resultVars, undoVars >>

\* main.py organize_files, pressed at any time: line 804-806 rejects the
\* request while a run is in progress; otherwise line 831 sets the flag and
\* line 885 starts the thread of organize_worker
OrganizeRequest ==
    \/ /\ operation_in_progress
       /\ UNCHANGED << requestFrame, h >>
    \/ /\ ~ operation_in_progress
       /\ operation_in_progress' = TRUE
       /\ pc' = "org_start"
       /\ collecting' = FALSE
       /\ finished0' = { }
       /\ doneSeq' = << >>
       /\ yielded' = { }
       /\ h' = [h EXCEPT !.overlap = @ \/ pc \notin RestPhases,
                        !.callbacks = 0]
       /\ UNCHANGED << clsVars, settingsVars, fs, dirs, cancel_flag,
                       app_undo_operations, files, i, task, resultVars,
                       undoVars >>

\* main.py undo_last_operation, pressed at any time: line 909-911 rejects
\* the request while a run is in progress, line 913-915 returns when nothing
\* is stored; otherwise line 922 sets the flag and line 962 starts the
\* thread of undo_worker with the stored log
UndoRequest ==
    \/ /\ operation_in_progress
       /\ UNCHANGED << requestFrame, h >>
    \/ /\ ~ operation_in_progress
       /\ app_undo_operations # << >>
       /\ operation_in_progress' = TRUE
       /\ k' = Len(app_undo_operations)
       /\ undone' = 0
       /\ undo_errors' = << >>
       /\ folders_to_check' = { }
       /\ removed_folders' = << >>
       /\ pc' = "undo_loop"
       /\ h' = [h EXCEPT !.overlap = @ \/ pc \notin RestPhases,
                        !.callbacks = 0]
       /\ UNCHANGED << clsVars, settingsVars, fs, dirs, cancel_flag,
                       app_undo_operations, files, i, task, collectVars,
                       resultVars >>

InitApp ==
    /\ InitRun([cf |-> TRUE, bd |-> FALSE, pre |-> "none"], TRUE)
    /\ cq = NoQuery
    /\ cr = NoResult

NextApp ==
    \/ OrganizeRequest
    \/ UndoRequest
    \/ OrganizeBegin
    \/ SubmitCheck
    \/ Submit
    \/ CollectBegin
    \/ CollectNext
    \/ CollectEnd
    \/ OrganizeReturn
    \/ Worker
    \/ OrganizeComplete
    \/ UndoEnd
    \/ UndoStep
    \/ CleanupStep
    \/ UndoReturn
    \/ UndoComplete

SpecApp == InitApp /\ [][NextApp]_vars

----------------------------------------------------------------------------
(***************************************************************************)
(* The enumeration of the folder on its own: the folder's content, the     *)
(* skip-hidden setting and the size limits are drawn from bounded sets and *)
(* the two callers of get_files_in_folder are applied to them.             *)
(***************************************************************************)
\* the application at rest over a folder with files f and directories ds
InitWith(f, ds) ==
    /\ move_files = TRUE
    /\ create_folders = TRUE
    /\ organize_by_date = FALSE
    /\ fs = f
    /\ dirs = ds
    /\ cancel_flag = FALSE
    /\ operation_in_progress = FALSE
    /\ app_undo_operations = << >>
    /\ pc = "idle"
    /\ files = << >>
    /\ i = 0
    /\ task = << >>
    /\ collecting = FALSE
    /\ finished0 = { }
    /\ doneSeq = << >>
    /\ yielded = { }
    /\ undo_operations = << >>
    /\ errors = << >>
    /\ organized = 0
    /\ k = 0
    /\ undone = 0
    /\ undo_errors = << >>
    /\ folders_to_check = { }
    /\ removed_folders = << >>
    /\ h = [ fs0 |-> f, dirs0 |-> ds, faults |-> 0, external |-> FALSE,
             undoFaults |-> 0, overwrote |-> FALSE, nAtCancel |-> -1,
             checkPassed |-> FALSE, undoCancelled |-> FALSE,
             created |-> { }, did |-> { },
             overlap |-> FALSE, unlistable |-> FALSE,
             progress |-> << >>, status |-> << >>, callbacks |-> 0 ]

\* the contents a file may have: of 1, 2, 3 and 0 bytes
Contents == { "A", "A1", "B", "C" }

\* the names that may lie directly in a scanned folder, one of them hidden
ScanNames == { aTxt, bJpg, dotTxt }

\* a file below a subdirectory of the folder, present in every scanned folder
NestedFile == Path(<< "Documents" >>, a1Txt)

\* the folders that are scanned: any subset of the names, each file with any
\* content, beside a subdirectory that holds a file
ScanFolders ==
    UNION { { Put([p \in { Path(Root, n) : n \in S } |-> c[p.name]],
                  NestedFile, "A1") : c \in [S -> Contents] }
            : S \in SUBSET ScanNames }

\* the size limits of a run
SizeLimits == { 0, 1, 2, 3, Inf }

InitList ==
    /\ \E f \in ScanFolders : InitWith(f, { Root, << "Documents" >> })
    /\ \E skip \in BOOLEAN, mn \in SizeLimits \ { Inf }, mx \in SizeLimits :
          cq = [skip_hidden |-> skip, min_size_bytes |-> mn,
                max_size_bytes |-> mx]
    /\ cr = [organize |-> { }, preview |-> { }, listed |-> { }]

\* organize_files line 190: the candidates of an organize run
ListOrganize ==
    /\ "organize" \notin cr.listed
    /\ cr' = [cr EXCEPT !.listed = @ \cup { "organize" },
                        !.organize =
                get_files_in_folder(fs, cq.skip_hidden, cq.min_size_bytes,
                                    cq.max_size_bytes)]
    /\ UNCHANGED << cq, settingsVars, fs, dirs, cancel_flag,
                    operation_in_progress, app_undo_operations, pc, files, i,
                    task, collectVars, resultVars, undoVars, h >>

\* get_organization_preview line 93: the candidates of a preview
ListPreview ==
    /\ "preview" \notin cr.listed
    /\ cr' = [cr EXCEPT !.listed = @ \cup { "preview" },
                        !.preview =
                get_files_in_folder(fs, cq.skip_hidden, cq.min_size_bytes,
                                    cq.max_size_bytes)]
    /\ UNCHANGED << cq, settingsVars, fs, dirs, cancel_flag,
                    operation_in_progress, app_undo_operations, pc, files, i,
                    task, collectVars, resultVars, undoVars, h >>

NextList == ListOrganize \/ ListPreview

SpecList == InitList /\ [][NextList]_vars

----------------------------------------------------------------------------
(***************************************************************************)
(* The duplicate scan, SmartFeatures.find_duplicates, on its own.          *)
(***************************************************************************)
\* _file_hash: the SHA-256 digest of the content (taken to be free of
\* collisions: different contents have different digests)
FileHash(c) == << "sha256", c >>

\* defaultdict(list) with no key
EmptyHashes == [x \in { } |-> << >>]

\* line 20-21: the regular files directly in the folder that are not hidden
DuplicateCandidates(f) ==
    { p.name : p \in { q \in DOMAIN f : q.dir = Root /\ Head(q.name) # "." } }

RECURSIVE ScanHashes(_, _, _, _)
\* line 23-35: hashes after the first n files of the listing; an empty file
\* is skipped, and so is a file whose size or content cannot be read
ScanHashes(f, unreadable, listing, n) ==
    IF n = 0 THEN EmptyHashes
    ELSE LET hashes == ScanHashes(f, unreadable, listing, n - 1)
             filename == listing[n]
             filepath == Path(Root, filename)
         IN  IF filename \in unreadable THEN hashes
             ELSE IF SizeOf(f[filepath]) = 0 THEN hashes
             ELSE LET file_hash == FileHash(f[filepath]) IN
                  [x \in DOMAIN hashes \cup { file_hash } |->
                      IF x # file_hash THEN hashes[x]
                      ELSE IF x \in DOMAIN hashes
                           THEN Append(hashes[x], filename)
                      ELSE << filename >>]

\* a faulty variant of find_duplicates: groups of one file are kept
find_duplicates_keepSingles(f, unreadable, listing) ==
    ScanHashes(f, unreadable, listing, Len(listing))

\* find_duplicates: the groups of two or more files (line 41)
find_duplicates(f, unreadable, listing) ==
    LET hashes == ScanHashes(f, unreadable, listing, Len(listing))
    IN  [x \in { y \in DOMAIN hashes : Len(hashes[y]) > 1 } |-> hashes[x]]

\* the names that may lie directly in a folder scanned for duplicates
DuplicateNames == { aTxt, a1Txt, bJpg, dotTxt }

\* the scanned folders: any subset of the names, each file with a content of
\* 1, 3 or 0 bytes
DuplicateFolders ==
    UNION { { [p \in { Path(Root, n) : n \in S } |-> c[p.name]]
                : c \in [S -> { "A", "B", "C" }] }
            : S \in SUBSET DuplicateNames }

InitDuplicates ==
    /\ \E f \in DuplicateFolders : InitWith(f, { Root })
    /\ \E u \in { { } } \cup { { n } : n \in DuplicateNames } :
          cq = [unreadable |-> u]
    /\ cr = [scanned |-> FALSE, duplicates |-> EmptyHashes]

\* main.py find_duplicates calls the scan; os.listdir gives the names in no
\* particular order
FindDuplicates ==
    /\ ~ cr.scanned
    /\ \E listing \in Orders(DuplicateCandidates(fs)) :
          cr' = [scanned |-> TRUE,
                 duplicates |-> find_duplicates(fs, cq.unreadable, listing)]
    /\ UNCHANGED << cq, settingsVars, fs, dirs, cancel_flag,
                    operation_in_progress, app_undo_operations, pc, files, i,
                    task, collectVars, resultVars, undoVars, h >>

NextDuplicates == FindDuplicates

SpecDuplicates == InitDuplicates /\ [][NextDuplicates]_vars

----------------------------------------------------------------------------
(***************************************************************************)
(* get_unique_path on its own: one caller asks for the same path several   *)
(* times in a row and may create a file at the path it was given.          *)
(***************************************************************************)
\* the names whose destination path is asked for: with and without extension
UniqueNames == { aTxt, cBin }

\* the destination folder holds any of name, name_1, name_2
UniqueFolders(name) ==
    { [p \in { Path(<< "Documents" >>, n) : n \in S } |-> "pre"] :
        S \in SUBSET { name, Suffixed(name, 1), Suffixed(name, 2) } }

InitUnique ==
    /\ \E name \in UniqueNames :
          /\ \E f \in UniqueFolders(name) :
                InitWith(f, { Root, << "Documents" >> })
          /\ cq = [path |-> Path(<< "Documents" >>, name)]
    /\ cr = [results |-> << >>, created |-> { }]

\* a caller enters get_unique_path(path)
UniqueCall ==
    /\ files \in { << >>, << cq.path.name >> }
    /\ \A t \in DOMAIN task : task[t].st = "none"
    /\ Len(cr.results) < MaxCalls
    /\ files' = << cq.path.name >>
    /\ task' = << [NoTask EXCEPT !.st = "unique", !.dest_path = cq.path] >>
    /\ UNCHANGED << clsVars, settingsVars, fs, dirs, cancel_flag,
                    operation_in_progress, app_undo_operations, pc, i,
                    collectVars, resultVars, undoVars, h >>

\* the steps of get_unique_path for that caller
UniqueSteps == \E t \in DOMAIN task : UniqueFirst(t) \/ UniqueLoop(t)

\* line 128, 140: the path is returned to the caller, who notes it together
\* with the files that exist at that moment
UniqueReturn ==
    /\ task # << >>
    /\ task[1].st = "move"
    /\ cr' = [cr EXCEPT !.results =
                Append(@, [path |-> task[1].dest_path, existing |-> DOMAIN fs])]
    /\ task' = << NoTask >>
    /\ UNCHANGED << cq, settingsVars, fs, dirs, cancel_flag,
                    operation_in_progress, app_undo_operations, pc, files, i,
                    collectVars, resultVars, undoVars, h >>

\* the caller creates a file at the path it was given last
UniqueCreate ==
    /\ task = << NoTask >>
    /\ cr.results # << >>
    /\ ~ Exists(fs, cr.results[Len(cr.results)].path)
    /\ fs' = Put(fs, cr.results[Len(cr.results)].path, "new")
    /\ cr' = [cr EXCEPT !.created = @ \cup { Len(cr.results) }]
    /\ UNCHANGED << cq, settingsVars, dirs, cancel_flag,
                    operation_in_progress, app_undo_operations, pc, files, i,
                    task, collectVars, resultVars, undoVars, h >>

NextUnique == UniqueCall \/ UniqueSteps \/ UniqueReturn \/ UniqueCreate

SpecUnique == InitUnique /\ [][NextUnique]_vars

----------------------------------------------------------------------------
(***************************************************************************)
(* The classifier on its own: the inputs are drawn from bounded sets and   *)
(* the two callers of the cascade are applied to them.                     *)
(***************************************************************************)
ClassifyNames == { aTxt, a1Txt, bJpg, cBin, invPdf, dotTxt }

TagUniverse == { "Inv", "a", "txt", "zz" }

TagLists == UNION { [1..n -> TagUniverse] : n \in 0..MaxTags }

\* a table in which an extension is listed by two categories, and one lists
\* an extension in upper case
OverlapFileTypes ==
    << [category |-> "Text", extensions |-> { << ".", "t", "x", "t" >> }],
       [category |-> "Documents", extensions |-> { << ".", "t", "x", "t" >>,
                                                    << ".", "p", "d", "f" >> }],
       [category |-> "Upper", extensions |-> { << ".", "J", "P", "G" >> }],
       [category |-> "Images", extensions |-> { << ".", "j", "p", "g" >> }] >>

\* manual assignments: none, one for the file (to a category outside the
\* table, to one inside it, to the empty string), one for another file
ManualChoices(filename) ==
    { EmptyDict, filename :> "Archive", filename :> "Images", filename :> "",
      (IF filename = cBin THEN aTxt ELSE cBin) :> "Archive" }

InitClassify ==
    /\ InitRun([cf |-> TRUE, bd |-> FALSE, pre |-> "none"], TRUE)
    /\ \E filename \in ClassifyNames, tags \in TagLists,
          table \in { DefaultFileTypes, OverlapFileTypes } :
          \E manual \in ManualChoices(filename) :
              cq = [filename |-> filename, custom_tags |-> tags,
                    manual_assignments |-> manual, file_types |-> table]
    /\ cr = NoResult

\* _process_single_file classifies the file
ClassifyProcess ==
    /\ cr.process = NoneVal
    /\ cr' = [cr EXCEPT !.process =
                process_category(cq.file_types, cq.filename, cq.custom_tags,
                                 cq.manual_assignments)]
    /\ UNCHANGED << cq, settingsVars, fs, dirs, cancel_flag,
                    operation_in_progress, app_undo_operations, pc, files, i,
                    task, collectVars, resultVars, undoVars, h >>

\* get_organization_preview classifies the file
ClassifyPreview ==
    /\ cr.preview = NoneVal
    /\ cr' = [cr EXCEPT !.preview =
                preview_category(cq.file_types, cq.filename, cq.custom_tags,
                                 cq.manual_assignments)]
    /\ UNCHANGED << cq, settingsVars, fs, dirs, cancel_flag,
                    operation_in_progress, app_undo_operations, pc, files, i,
                    task, collectVars, resultVars, undoVars, h >>

NextClassify == ClassifyProcess \/ ClassifyPreview

SpecClassify == InitClassify /\ [][NextClassify]_vars

\* both callers have answered the query
Classified == cr.process # NoneVal /\ cr.preview # NoneVal

\* the positions of the custom tags whose text occurs in the file name,
\* letter case ignored
MatchingTags ==
    { n \in 1..Len(cq.custom_tags) :
        Contains(Lower(cq.filename), Lower(TagText(cq.custom_tags[n]))) }

\* the positions of the table's categories that list the file's extension,
\* lowercased
ListingCategories ==
    { n \in 1..Len(cq.file_types) :
        Lower(splitext(cq.filename)[2]) \in cq.file_types[n].extensions }

Least(S) == CHOOSE n \in S : \A m \in S : n <= m

\* C3 as claimed: a file name that is a key of manual_assignments is
\* classified as the assigned value, whatever the value.
C3_ManualUnconditional ==
    (Classified /\ cq.filename \in DOMAIN cq.manual_assignments)
        => /\ cr.process = cq.manual_assignments[cq.filename]
           /\ cr.preview = cq.manual_assignments[cq.filename]

\* C3 amended: a file name whose manual assignment is a non-empty value is
\* classified as that value by preview and by organize, whatever its
\* extension, the custom tags, and whether the table has that category.
C3_ManualNonEmptyWins ==
    (Classified /\ cq.filename \in DOMAIN cq.manual_assignments
        /\ cq.manual_assignments[cq.filename] # "")
        => /\ cr.process = cq.manual_assignments[cq.filename]
           /\ cr.preview = cq.manual_assignments[cq.filename]

\* C3 witness: INV.pdf is assigned to Archive, a category outside the table,
\* while a tag matches the name and the table lists the extension
C3_Witness ==
    /\ Classified
    /\ cq.filename = invPdf
    /\ cq.manual_assignments = (invPdf :> "Archive")
    /\ MatchingTags # { }
    /\ ListingCategories # { }
    /\ cr.process = "Archive"
    /\ cr.preview = "Archive"

\* C4: a file name without manual assignment that contains a custom tag
\* (case-insensitively) is classified as the first such tag of the list,
\* also when the table lists its extension.
C4_FirstTagWins ==
    (Classified /\ cq.filename \notin DOMAIN cq.manual_assignments
        /\ MatchingTags # { })
        => /\ cr.process = cq.custom_tags[Least(MatchingTags)]
           /\ cr.preview = cq.custom_tags[Least(MatchingTags)]

\* C4 witness: INV.pdf with the tags zz, Inv: the tag matches only when case
\* is ignored, it is the second of the list, and .pdf is a Documents extension
C4_Witness ==
    /\ Classified
    /\ cq.filename = invPdf
    /\ cq.manual_assignments = EmptyDict
    /\ cq.custom_tags = << "zz", "Inv" >>
    /\ ListingCategories # { }
    /\ cr.process = "Inv"
    /\ cr.preview = "Inv"

\* C5: a file name with no manual assignment and no matching tag is
\* classified as the first category of the table, in its order, that lists
\* the lowercased extension, and as "Others" when none does.
C5_FirstListingCategory ==
    (Classified /\ cq.filename \notin DOMAIN cq.manual_assignments
        /\ MatchingTags = { })
        => LET expected ==
                   IF ListingCategories = { } THEN "Others"
                   ELSE cq.file_types[Least(ListingCategories)].category
           IN  cr.process = expected /\ cr.preview = expected

\* C5 witness: a.txt, which Text and Documents both list, becomes Text, the
\* first of the two in the table's order
C5_Witness ==
    /\ Classified
    /\ cq.filename = aTxt
    /\ cq.manual_assignments = EmptyDict
    /\ cq.custom_tags = << "zz" >>
    /\ cq.file_types = OverlapFileTypes
    /\ Cardinality(ListingCategories) = 2
    /\ cr.process = "Text"
    /\ cr.preview = "Text"

----------------------------------------------------------------------------
(***************************************************************************)
(* Properties of the organize and undo runs.                               *)
(***************************************************************************)
RootFiles(f) == { p \in DOMAIN f : p.dir = Root }

\* the cancel flag was never set after the organize run reset it, nothing
\* was removed from outside and no filesystem call failed
Undisturbed ==
    ~ cancel_flag /\ ~ h.external /\ h.faults = 0 /\ h.undoFaults = 0

\* C1: round trip.  After a move-mode organize run and the undo of the log
\* it returned (no cancellation, no external modification, no failing call),
\* every file the run moved is back at its original path with its content,
\* and the files directly in the folder are those of before the run.
C1_RoundTrip ==
    (pc = "finished" /\ move_files /\ Undisturbed)
        => /\ \A op \in h.did :
                Exists(fs, op.src) /\ fs[op.src] = h.fs0[op.src]
           /\ RootFiles(fs) = RootFiles(h.fs0)

\* C2: no silent overwrite.  No move or copy of a run writes to a path at
\* which a file exists.
C2_NoSilentOverwrite == ~ h.overwrote

\* C6: undo never deletes a directory that existed before the organize run.
C6_PreexistingDirsKept == \A d \in h.dirs0 : d \in dirs

\* C7: after organize and the undo of its log (no cancellation, no external
\* modification, no failing call during undo), no directory that the run
\* created exists any more, also when a move or copy of the run failed.
C7_CreatedDirsRemoved ==
    (pc = "finished" /\ ~ cancel_flag /\ ~ h.external /\ h.undoFaults = 0)
        => \A d \in h.created : d \notin dirs

\* C8: cancellation bound.  When the cancel flag is set once N files have
\* been handed to the pool, no file is scheduled by a check that sees the
\* flag (at most the one file whose check had already passed follows), and
\* the organized count never exceeds N.
C8_CancelBound ==
    h.nAtCancel >= 0
        => /\ Cardinality(Submitted)
                <= h.nAtCancel + (IF h.checkPassed THEN 1 ELSE 0)
           /\ organized <= h.nAtCancel

\* C8 witness: the run returned after the flag was set with one of the two
\* files handed to the pool, the second never scheduled
C8_Witness ==
    /\ pc = "org_returned"
    /\ Len(files) = 2
    /\ h.nAtCancel = 1
    /\ Cardinality(Submitted) = 1
    /\ Finished = Submitted

\* C9: the cancel flag is reset at the start of every run.  While an undo run
\* that was not itself cancelled is under way the flag is clear, and when it
\* returns (no failing call, no overwritten destination) it has reversed
\* every entry of the log.
C9_ResetEveryRun ==
    /\ (pc \in UndoPhases /\ ~ h.undoCancelled) => ~ cancel_flag
    /\ (pc = "undo_returned" /\ ~ h.undoCancelled /\ h.undoFaults = 0
            /\ ~ h.overwrote)
          => undone = Len(app_undo_operations)

\* C10: the log organize returns holds only operations that were carried
\* out, each of the kind the move-vs-copy setting asks for, and the
\* organized count is the length of the log.
C10_LogOnlySucceeded ==
    pc = "org_returned"
        => /\ \A n \in 1..Len(undo_operations) :
                /\ undo_operations[n] \in h.did
                /\ undo_operations[n].kind
                      = (IF move_files THEN "move" ELSE "copy")
           /\ organized = Len(undo_operations)

\* the files of the run whose operation failed
FailedFiles == { t \in DOMAIN task : task[t].st = "done" /\ ~ task[t].ok }

\* C11: a failure on one file does not abort the batch.  When a run that was
\* not cancelled returns, every candidate file was handed to the pool and
\* processed, and the error list has exactly one entry for each file whose
\* operation failed.
C11_ErrorsIsolated ==
    (pc = "org_returned" /\ ~ cancel_flag)
        => /\ Finished = 1..Len(files)
           /\ Len(errors) = Cardinality(FailedFiles)
           /\ \A t \in FailedFiles : \E n \in 1..Len(errors) : errors[n] = files[t]

\* C11 witness: a run of two files returned, the operation of one failed and
\* is in the error list, the other was carried out and is in the log
C11_Witness ==
    /\ pc = "org_returned"
    /\ ~ cancel_flag
    /\ Len(files) = 2
    /\ Cardinality(FailedFiles) = 1
    /\ Len(errors) = 1
    /\ organized = 1
    /\ \E t \in 1..2 : task[t].ok /\ task[t].op \in h.did

\* C12: at most one run is in flight.  No run is ever started while the
\* thread of another is alive (a request made then is rejected), and the
\* in-progress flag is set for as long as a run's thread exists.
C12_SingleFlight ==
    /\ ~ h.overlap
    /\ pc \notin RestPhases => operation_in_progress

\* C12 witness: a first run has completed and stored its log, a second
\* organize run has been accepted and is under way with the flag set, and
\* one of its workers is about to move a file (a request made now is
\* rejected and changes nothing)
C12_Witness ==
    /\ app_undo_operations # << >>
    /\ pc \in OrgPhases
    /\ operation_in_progress
    /\ \E t \in DOMAIN task : task[t].st = "move"

\* C13: the stored log is replaced by each organize run.  Once the
\* completion callback of an organize run has run, the stored log is the log
\* that run returned, also when the run organized nothing, so that undo
\* reverses the operations of that run only.
C13_LogReplaced ==
    pc = "ready" => app_undo_operations = undo_operations

\* the files other than those at the two paths of op are the same in f and g
SameElsewhere(f, g, op) ==
    \A p \in (DOMAIN f \cup DOMAIN g) \ { op.src, op.dst } :
        p \in DOMAIN f /\ p \in DOMAIN g /\ f[p] = g[p]

\* C14: undo takes the entries from the last recorded to the first.  For a
\* move entry whose destination exists the file is moved back to the source
\* path; for a copy entry whose destination exists the destination is
\* deleted and the source is left as it is; each such entry adds one to the
\* undone count; an entry whose destination is gone changes nothing, is not
\* counted and leaves no error.
C14_UndoReverses ==
    [][ /\ (pc # "undo_loop" /\ pc' = "undo_loop")
            => (k' = Len(app_undo_operations') /\ undone' = 0)
        /\ (pc = "undo_loop")
            => \/ UNCHANGED << fs, k, undone, undo_errors >>
               \/ /\ k >= 1
                  /\ k' = k - 1
                  /\ LET op == app_undo_operations[k] IN
                     IF ~ Exists(fs, op.dst)
                     THEN UNCHANGED << fs, undone, undo_errors >>
                     ELSE IF h'.undoFaults # h.undoFaults
                     THEN UNCHANGED << fs, undone >>
                     ELSE /\ undone' = undone + 1
                          /\ undo_errors' = undo_errors
                          /\ ~ Exists(fs', op.dst)
                          /\ SameElsewhere(fs, fs', op)
                          /\ IF op.kind = "move"
                             THEN Exists(fs', op.src) /\ fs'[op.src] = fs[op.dst]
                             ELSE Exists(fs', op.src) = Exists(fs, op.src)
                                  /\ (Exists(fs, op.src)
                                        => fs'[op.src] = fs[op.src])
      ]_vars

\* C14 witness: undo of a two-entry log returned; one entry was reversed and
\* counted, the destination of the other was gone, and there is no error
C14_Witness ==
    /\ pc = "undo_returned"
    /\ ~ cancel_flag
    /\ Len(app_undo_operations) = 2
    /\ \A n \in 1..2 : app_undo_operations[n] # NoneOp
    /\ undone = 1
    /\ undo_errors = << >>
    /\ h.undoFaults = 0

\* the names directly in the folder whose file has a size within the limits
\* of the query, the hidden ones left out when skip-hidden is set
ExpectedCandidates ==
    { n \in { p.name : p \in { q \in DOMAIN fs : q.dir = Root } } :
        /\ cq.skip_hidden => Head(n) # "."
        /\ SizeOf(fs[Path(Root, n)]) >= cq.min_size_bytes
        /\ SizeOf(fs[Path(Root, n)]) <= cq.max_size_bytes }

\* C15: the candidates of an organize run and of a preview are exactly the
\* regular files directly in the folder, without the names beginning with a
\* dot when skip-hidden is set, whose size s has min_size <= s <= max_size.
C15_CandidateSet ==
    /\ "organize" \in cr.listed => cr.organize = ExpectedCandidates
    /\ "preview" \in cr.listed => cr.preview = ExpectedCandidates

\* C15 witness: with limits 1..2 and skip-hidden set, a.txt of exactly 1 byte
\* is a candidate, b.JPG of 3 bytes and the hidden .txt of 1 byte are not,
\* nor is the file below Documents
C15_Witness ==
    /\ cq = [skip_hidden |-> TRUE, min_size_bytes |-> 1, max_size_bytes |-> 2]
    /\ Exists(fs, Path(Root, aTxt)) /\ fs[Path(Root, aTxt)] = "A"
    /\ Exists(fs, Path(Root, bJpg)) /\ fs[Path(Root, bJpg)] = "B"
    /\ Exists(fs, Path(Root, dotTxt)) /\ fs[Path(Root, dotTxt)] = "A"
    /\ cr.listed = { "organize", "preview" }
    /\ cr.organize = { aTxt }
    /\ cr.preview = { aTxt }

\* the files of the scanned folder that are top-level, not hidden, not empty
\* and readable
Hashable ==
    { n \in DuplicateCandidates(fs) :
        SizeOf(fs[Path(Root, n)]) > 0 /\ n \notin cq.unreadable }

\* the names of the group that find_duplicates returned under hash x
Group(x) == { cr.duplicates[x][n] : n \in 1..Len(cr.duplicates[x]) }

\* C16: every group that find_duplicates returns has at least two file
\* names, no file is in two groups, only top-level, non-hidden, non-empty,
\* readable files are in a group, and two such files are in one group
\* exactly when their content is the same (so a folder of distinct files
\* gives no group, and an unreadable file is left out without ending the
\* scan).
C16_DuplicateGroups ==
    cr.scanned =>
        /\ \A x \in DOMAIN cr.duplicates :
              /\ Cardinality(Group(x)) >= 2
              /\ Cardinality(Group(x)) = Len(cr.duplicates[x])
              /\ Group(x) \subseteq Hashable
        /\ \A x, y \in DOMAIN cr.duplicates :
              x # y => Group(x) \cap Group(y) = { }
        /\ \A a, b \in Hashable :
              a # b => ((\E x \in DOMAIN cr.duplicates : { a, b } \subseteq Group(x))
                          <=> fs[Path(Root, a)] = fs[Path(Root, b)])

\* C16 witness: a.txt and a_1.txt have the same content, b.JPG another, and
\* the hidden .txt the content of a.txt: one group, of a.txt and a_1.txt
C16_Witness ==
    /\ cr.scanned
    /\ DOMAIN fs = { Path(Root, n) : n \in DuplicateNames }
    /\ fs[Path(Root, aTxt)] = "A"
    /\ fs[Path(Root, a1Txt)] = "A"
    /\ fs[Path(Root, bJpg)] = "B"
    /\ fs[Path(Root, dotTxt)] = "A"
    /\ Cardinality(DOMAIN cr.duplicates) = 1
    /\ \A x \in DOMAIN cr.duplicates : Group(x) = { aTxt, a1Txt }

\* the numbers N >= 1 for which name_N.ext of the asked path is not among
\* the paths D (one of the first Cardinality(D) + 1 numbers always is)
FreeSuffixes(D) ==
    { N \in 1..(Cardinality(D) + 1) :
        Path(cq.path.dir, Suffixed(cq.path.name, N)) \notin D }

\* what get_unique_path is to return for the asked path when the files at
\* the paths D exist
ExpectedUnique(D) ==
    IF cq.path \notin D THEN cq.path
    ELSE Path(cq.path.dir, Suffixed(cq.path.name, Least(FreeSuffixes(D))))

\* C17: get_unique_path returns its input when no file exists there and
\* otherwise name_N.ext for the smallest N >= 1 at which none exists; two
\* calls in a row with no file created in between return the same path, and
\* after a file was created at the returned path the next call returns
\* another path, at which again no file exists.
C17_UniquePath ==
    \A n \in 1..Len(cr.results) :
        /\ cr.results[n].path = ExpectedUnique(cr.results[n].existing)
        /\ cr.results[n].path \notin cr.results[n].existing
        /\ n > 1 =>
              IF (n - 1) \in cr.created
              THEN cr.results[n].path # cr.results[n - 1].path
              ELSE cr.results[n].path = cr.results[n - 1].path

\* C17 witness: a.txt is taken and a_1.txt is free: the first two calls give
\* a_1.txt; a file is created there, a_2.txt is free, and the third call
\* gives a_2.txt
C17_Witness ==
    /\ Len(cr.results) = 3
    /\ cr.created = { 2 }
    /\ cq.path = Path(<< "Documents" >>, aTxt)
    /\ cr.results[1].path = Path(<< "Documents" >>, a1Txt)
    /\ cr.results[2].path = Path(<< "Documents" >>, a1Txt)
    /\ cr.results[3].path = Path(<< "Documents" >>, Suffixed(aTxt, 2))

\* C18: when the folder cannot be enumerated the organize run fails as a
\* whole: it ends by raising, no file was moved or copied, no directory was
\* created, no task was handed to the pool, and no log is returned or stored.
C18_EnumerationFailureIsFatal ==
    h.unlistable
        => /\ pc \in { "org_raised", "failed" }
           /\ fs = h.fs0
           /\ dirs = h.dirs0
           /\ Submitted = { }
           /\ h.did = { } /\ h.created = { }
           /\ undo_operations = << >>
           /\ app_undo_operations = << >>

\* C18 witness: the run over a folder with files has raised and its
\* completion callback has shown the error
C18_Witness ==
    /\ h.unlistable
    /\ pc = "failed"
    /\ ~ operation_in_progress
    /\ DOMAIN fs # { }
    /\ fs = h.fs0

\* C19: failures during undo are isolated.  When an undo run that nobody
\* cancelled ends, it ends by returning its result (undone count, errors,
\* removed folders), every entry of the log was attempted, and each failure
\* on an entry or on the removal of a folder has its entry in the error list.
C19_UndoFailuresIsolated ==
    (pc \in { "undo_returned", "undo_raised" } /\ ~ cancel_flag)
        => /\ pc = "undo_returned"
           /\ k = 0
           /\ Len(undo_errors) = h.undoFaults

\* C20: the n-th call of the progress callback in an organize run reports
\* (n, total) with total the number of candidate files, the n-th status call
\* names the n-th candidate file, no file has more than one call of either
\* callback, and a file whose operation has been handed to the pool (so that
\* its move or copy may begin) has had both callbacks called before.
C20_CallbacksOrdered ==
    /\ Len(h.progress) <= Len(files)
    /\ \A n \in 1..Len(h.progress) :
          h.progress[n] = [current |-> n, total |-> Len(files)]
    /\ Len(h.status) = Len(h.progress)
    /\ \A n \in 1..Len(h.status) : h.status[n] = files[n]
    /\ \A t \in DOMAIN task :
          task[t].st # "none" => t <= Len(h.progress)

\* the callbacks of the second file have been called while that file is not
\* yet submitted, and the first file's operation is already finished
C20_Witness ==
    /\ pc = "org_submit"
    /\ i = 1
    /\ Len(h.progress) = 2
    /\ task[2].st = "none"
    /\ task[1].st = "done" /\ task[1].ok /\ task[1].op # NoneOp

\* the files of the run whose computed destination is their own path
SkippedFiles ==
    { t \in Finished : task[t].dest_path = file_path(t) }

\* C21: a file whose destination path equals its source path is skipped.
\* When organize returns, such a file was neither moved nor copied, has no
\* entry in the error list, and has no entry in the undo log: the log has
\* no more entries than there are files that were not skipped.
C21_SkipNotRecorded ==
    pc = "org_returned"
        => /\ \A t \in SkippedFiles :
                /\ task[t].op \notin h.did
                /\ \A n \in 1..Len(errors) : errors[n] # files[t]
           /\ Len(undo_operations) <= Cardinality(Finished \ SkippedFiles)

\* C22: organize returns only after every operation handed to the pool has
\* run to completion, also when the run was cancelled: once it has returned,
\* every file of the run is either never submitted or finished, so that no
\* move or copy of the run is in progress or can still start.
C22_ReturnAfterWorkers ==
    pc = "org_returned"
        => \A t \in DOMAIN task : task[t].st \in { "none", "done" }

\* C22 witness: a cancelled run has returned; the collection loop was left
\* before it had taken every result, and the files handed to the pool were
\* all processed, one of them moved or copied
C22_Witness ==
    /\ pc = "org_returned"
    /\ cancel_flag
    /\ yielded # Submitted
    /\ Submitted # { }
    /\ Finished = Submitted
    /\ \E t \in Submitted : task[t].ok /\ task[t].op \in h.did

----------------------------------------------------------------------------
(***************************************************************************)
(* The editors and a run.  cq holds the two objects the application shares *)
(* with a run: the file-type table (config['file_types'], which is also    *)
(* FileOperations.file_types) and the manual-assignment map                *)
(* (self.manual_assignments, handed to organize_files_async as it is).     *)
(* The run classifies the files one after the other; the buttons of the    *)
(* two editor windows may be pressed at any time.                          *)
(***************************************************************************)
\* the files of the folder in this scenario
EditNames == { aTxt, invPdf }

\* what the file-type editor may be asked to store
EditCategories == { "Documents", "Text" }
EditExtensions == { { << ".", "t", "x", "t" >> },
                    { << ".", "t", "x", "t" >>, << ".", "p", "d", "f" >> } }

\* what a file may be assigned to ("None" removes the assignment)
EditAssignments == { "Archive", "None" }

\* the positions of the table that hold category
KeyPositions(table, category) ==
    { n \in 1..Len(table) : table[n].category = category }

\* dict[category] = extensions on an ordered dict: the value of an existing
\* key is replaced in place, a new key goes to the end
DictSet(table, category, extensions) ==
    IF KeyPositions(table, category) # { }
    THEN [n \in 1..Len(table) |->
            IF table[n].category = category
            THEN [category |-> category, extensions |-> extensions]
            ELSE table[n]]
    ELSE Append(table, [category |-> category, extensions |-> extensions])

\* dict.pop(category, None) on an ordered dict
DictPop(table, category) ==
    LET keep == { n \in 1..Len(table) : table[n].category # category }
        nth(m) == CHOOSE n \in keep :
                     Cardinality({ j \in keep : j <= n }) = m
    IN  [m \in 1..Cardinality(keep) |-> table[nth(m)]]

InitEdit ==
    /\ InitWith([p \in { Path(Root, n) : n \in EditNames } |-> "A"], { Root })
    /\ cq = [file_types |-> << >>, manual_assignments |-> EmptyDict]
    /\ cr = [categories |-> << >>]

\* main.py organize_files line 804-806, 831, 885-892: a run is started with
\* self.manual_assignments; the engine lists the folder (line 190)
EditRunStart ==
    /\ ~ operation_in_progress
    /\ operation_in_progress' = TRUE
    /\ pc' = "org_check"
    /\ \E order \in Orders(get_files_in_folder(fs, RunSkipHidden, 0, Inf)) :
          files' = order
    /\ i' = 0
    /\ cr' = [categories |-> << >>]
    /\ UNCHANGED << cq, settingsVars, fs, dirs, cancel_flag, app_undo_operations,
                    task, collectVars, resultVars, undoVars, h >>

\* _process_single_file line 246-256 for the next file: the worker reads
\* manual_assignments and self.file_types as they are at that moment
EditRunClassify ==
    /\ pc = "org_check"
    /\ i < Len(files)
    /\ cr' = [cr EXCEPT !.categories =
                Append(@, process_category(cq.file_types, files[i + 1], RunTags,
                                           cq.manual_assignments))]
    /\ i' = i + 1
    /\ UNCHANGED << cq, settingsVars, fs, dirs, cancel_flag,
                    operation_in_progress, app_undo_operations, pc, files,
                    task, collectVars, resultVars, undoVars, h >>

\* the run's completion callback, main.py line 846-850
EditRunComplete ==
    /\ pc = "org_check"
    /\ i = Len(files)
    /\ operation_in_progress' = FALSE
    /\ pc' = "ready"
    /\ UNCHANGED << clsVars, settingsVars, fs, dirs, cancel_flag,
                    app_undo_operations, files, i, task, collectVars,
                    resultVars, undoVars, h >>

\* what a button of an editor window leaves alone
editFrame ==
    << cr, settingsVars, fs, dirs, cancel_flag, operation_in_progress,
       app_undo_operations, pc, files, i, task, collectVars, resultVars,
       undoVars, h >>

\* file-type editor, "Add/Update Category" (main.py line 1037-1061):
\* file_types[category] = extensions
add_edit_type(category, extensions) ==
    /\ cq' = [cq EXCEPT !.file_types = DictSet(@, category, extensions)]
    /\ UNCHANGED editFrame

\* file-type editor, "Remove Selected" (main.py line 1068-1084): the
\* category of a line of the list is popped
remove_type(cat) ==
    /\ KeyPositions(cq.file_types, cat) # { }
    /\ cq' = [cq EXCEPT !.file_types = DictPop(@, cat)]
    /\ UNCHANGED editFrame

\* manual-assignment window, "Assign" (main.py line 1401-1428): the map that
\* was handed to the window, self.manual_assignments, is changed in place
assign_to_selected(file, category) ==
    /\ cq' = [cq EXCEPT !.manual_assignments =
                IF category = "None"
                THEN [x \in DOMAIN @ \ { file } |-> @[x]]
                ELSE [x \in DOMAIN @ \cup { file } |->
                        IF x = file THEN category ELSE @[x]]]
    /\ UNCHANGED editFrame

\* manual-assignment window, "Clear All" (main.py line 1316-1320)
clear_all ==
    /\ cq.manual_assignments # EmptyDict
    /\ cq' = [cq EXCEPT !.manual_assignments = EmptyDict]
    /\ UNCHANGED editFrame

NextEdit ==
    \/ EditRunStart
    \/ EditRunClassify
    \/ EditRunComplete
    \/ \E category \in EditCategories, extensions \in EditExtensions :
          add_edit_type(category, extensions)
    \/ \E cat \in EditCategories : remove_type(cat)
    \/ \E file \in EditNames, category \in EditAssignments :
          assign_to_selected(file, category)
    \/ clear_all

SpecEdit == InitEdit /\ [][NextEdit]_vars

\* C23: while an organize run is in flight the file-type table and the
\* manual-assignment map are not mutated: no step taken while the
\* in-progress flag is set changes either of them.
C23_TablesFrozen ==
    [][operation_in_progress
          => /\ cq'.file_types = cq.file_types
             /\ cq'.manual_assignments = cq.manual_assignments]_vars

RECURSIVE UndoAll(_, _, _)
\* undo_operations line 322-343 with no cancellation and no failing call:
\* the filesystem and the undone count after the entries n, n - 1, ..., 1 of
\* log, taken in that order; an entry that is None ends the loop (the
\* for statement raises)
UndoAll(f, log, n) ==
    IF n = 0 \/ log[n] = NoneOp THEN [fs |-> f, undone |-> 0]
    ELSE LET op == log[n]
             rest == UndoAll(IF Exists(f, op.dst) THEN undo_entry(f, op) ELSE f,
                             log, n - 1)
         IN  [fs |-> rest.fs,
              undone |-> rest.undone + (IF Exists(f, op.dst) THEN 1 ELSE 0)]

\* log with its entries in the order perm
Permuted(log, perm) == [n \in 1..Len(log) |-> log[perm[n]]]

\* C24: the result of undo does not depend on the order of the log.  When
\* organize returns, undoing any permutation of the returned log (no
\* cancellation, no failing call) gives the same filesystem and the same
\* undone count as undoing the log as returned.
C24_UndoOrderIndependent ==
    pc = "org_returned"
        => \A perm \in Orders(1..Len(undo_operations)) :
              UndoAll(fs, Permuted(undo_operations, perm), Len(undo_operations))
                = UndoAll(fs, undo_operations, Len(undo_operations))

\* C25: when organize returns, also after a cancellation, every move or
\* copy the run carried out has its entry in the returned log, and the
\* organized count is at least the number of files moved or copied.
C25_EveryMoveLogged ==
    pc = "org_returned"
        => /\ \A op \in h.did :
                \E n \in 1..Len(undo_operations) : undo_operations[n] = op
           /\ organized >= Cardinality(h.did)

\* C26: with create_folders off every file stays where it is.  The
\* destination directory of each file is the folder itself, no file of the
\* run is moved or copied (so none is renamed or duplicated), and the log
\* organize returns is empty.
C26_NoFoldersNoChange ==
    ~ create_folders
        => /\ \A t \in Submitted :
                task[t].st # "queued" => task[t].dest_path.dir = Root
           /\ h.did = { }
           /\ pc = "org_returned" => undo_operations = << >>

\* C27: the cleanup of undo never removes the organized folder itself (and
\* so never reaches a directory above it: the walk goes upward only through
\* directories it has removed).  Unless another program changed the folder,
\* the folder exists at every moment and is not among the removed folders.
C27_TargetFolderKept ==
    ~ h.external
        => /\ Root \in dirs
           /\ \A n \in 1..Len(removed_folders) : removed_folders[n] # Root

\* C27 witness: undo has returned after its cleanup walked upward from a
\* date folder, removed it and the category folder above it, and stopped at
\* the organized folder
C27_Witness ==
    /\ pc = "undo_returned"
    /\ ~ h.external
    /\ \E n \in 1..(Len(removed_folders) - 1) :
          /\ Len(removed_folders[n]) = 2
          /\ removed_folders[n + 1] = Parent(removed_folders[n])
    /\ Root \in dirs

----------------------------------------------------------------------------
(***************************************************************************)
(* Preview beside a run: the Preview button is pressed once, before the    *)
(* organize run or after it, on the folder as it is at that moment.  The   *)
(* run creates category folders, may be cancelled, and no other program    *)
(* touches the folder.                                                     *)
(***************************************************************************)
\* the empty preview dict
EmptyPreview == [x \in { } |-> << >>]

RECURSIVE PreviewScan(_, _, _, _)
\* get_organization_preview line 95-118 for the first n files of the
\* listing: the dict from category path (the category, followed by the date
\* folder when organize_by_date is set) to the list of file names
PreviewScan(f, by_date, listing, n) ==
    IF n = 0 THEN EmptyPreview
    ELSE LET preview == PreviewScan(f, by_date, listing, n - 1)
             filename == listing[n]
             base == preview_category(DefaultFileTypes, filename, RunTags,
                                      RunManual)
             category ==
                 IF by_date
                 THEN << base, get_date_folder(f, Path(Root, filename)) >>
                 ELSE << base >>
         IN  [x \in DOMAIN preview \cup { category } |->
                 IF x # category THEN preview[x]
                 ELSE IF x \in DOMAIN preview THEN Append(preview[x], filename)
                 ELSE << filename >>]

\* get_organization_preview: the loop leaves at its first file when the
\* cancel flag is set (line 96-97)
get_organization_preview(f, flag, by_date, listing) ==
    IF flag THEN EmptyPreview
    ELSE PreviewScan(f, by_date, listing, Len(listing))

InitPreview ==
    /\ \E bd \in BOOLEAN, mv \in BOOLEAN :
          InitRun([cf |-> TRUE, bd |-> bd, pre |-> "none"], mv)
    /\ cq = NoQuery
    /\ cr = [previewed |-> FALSE, candidates |-> { }, preview |-> EmptyPreview]

\* main.py preview_organization (line 526-548), pressed while no run is
\* under way: the engine lists the folder and classifies each file
preview_organization ==
    /\ pc \in { "idle", "ready" }
    /\ ~ cr.previewed
    /\ \E listing \in Orders(get_files_in_folder(fs, RunSkipHidden, 0, Inf)) :
          cr' = [previewed |-> TRUE,
                 candidates |-> get_files_in_folder(fs, RunSkipHidden, 0, Inf),
                 preview |-> get_organization_preview(fs, cancel_flag,
                                                      organize_by_date, listing)]
    /\ UNCHANGED << cq, settingsVars, fs, dirs, cancel_flag,
                    operation_in_progress, app_undo_operations, pc, files, i,
                    task, collectVars, resultVars, undoVars, h >>

NextPreview ==
    \/ preview_organization
    \/ OrganizeStart
    \/ CancelOperation
    \/ OrganizeBegin
    \/ SubmitCheck
    \/ Submit
    \/ CollectBegin
    \/ CollectNext
    \/ CollectEnd
    \/ OrganizeReturn
    \/ Worker
    \/ OrganizeComplete

SpecPreview == InitPreview /\ [][NextPreview]_vars

\* the category paths under which the preview lists filename
ListedUnder(filename) ==
    { C \in DOMAIN cr.preview :
        \E n \in 1..Len(cr.preview[C]) : cr.preview[C][n] = filename }

\* C28: preview agrees with organize.  Each candidate file of the folder is
\* listed by a preview once, under exactly one category path, and a file
\* that the preview lists under C is then placed by organize in the
\* directory C of the folder.
C28_PreviewAgrees ==
    cr.previewed
        => /\ \A filename \in cr.candidates :
                /\ Cardinality(ListedUnder(filename)) = 1
                /\ \A C \in ListedUnder(filename) :
                      Cardinality({ n \in 1..Len(cr.preview[C]) :
                                      cr.preview[C][n] = filename }) = 1
           /\ \A t \in DOMAIN task :
                 (task[t].st = "done" /\ task[t].ok)
                    => task[t].op.dst.dir \in ListedUnder(files[t])

----------------------------------------------------------------------------
\* C29: after an undo run has completed (its completion callback has run),
\* the application's stored undo log is empty, so that a second undo
\* request finds nothing to undo.
C29_LogClearedAfterUndo ==
    pc = "finished" => app_undo_operations = << >>

----------------------------------------------------------------------------
(***************************************************************************)
(* Progress of a run.  The background thread of a run (organize_worker or  *)
(* undo_worker) is a Python thread of its own, the workers are threads of  *)
(* the pool, and the completion callback is queued with root.after for the *)
(* Tk main loop: the run as a whole keeps running while it can.  What the  *)
(* user does (starting a run, Cancel) and what other programs do to the    *)
(* folder may happen or not.                                               *)
(***************************************************************************)
\* the steps of the background thread
BackgroundThread ==
    \/ OrganizeBegin
    \/ OrganizeRaise
    \/ SubmitCheck
    \/ Submit
    \/ CollectBegin
    \/ CollectNext
    \/ CollectEnd
    \/ OrganizeReturn
    \/ UndoEnd
    \/ UndoRaise
    \/ UndoCancelled
    \/ UndoStep
    \/ CleanupStep
    \/ UndoReturn

\* the completion callbacks, run by the Tk main loop
CompletionCallback ==
    \/ OrganizeComplete
    \/ OrganizeFailed
    \/ UndoComplete

\* a step of the run: of its thread, of a worker or of the main loop
RunStep ==
    \/ BackgroundThread
    \/ Worker
    \/ CompletionCallback

\* move mode, either into the folder itself (create_folders off) or into
\* category and date folders
InitLive ==
    /\ \E cf \in BOOLEAN :
          InitRun([cf |-> cf, bd |-> cf, pre |-> "none"], TRUE)
    /\ cq = NoQuery
    /\ cr = NoResult

\* while some step of the run can be taken, one is taken in the end
SpecLive ==
    /\ InitLive
    /\ [][Next]_vars
    /\ WF_vars(RunStep)

====
